---- MODULE Spec2Model ----
(***************************************************************************)
(* Model of the libvirt execution modules virt.domain, virt.node and       *)
(* virt.util.  The modules are stateless adapters: every public operation  *)
(* opens a connection, queries the hypervisor and closes the connection.   *)
(* The state of the model is the host (its domains) and the last call:     *)
(* its name, its arguments, the calls it made on its collaborators in      *)
(* order, and how it ended (a returned value or a raised exception).       *)
(***************************************************************************)
EXTENDS Integers, Sequences, FiniteSets, TLC

VARIABLES
    active,    \* names of the running domains, in listDomainsID() order
    defined,   \* names of the defined, not running domains (listDefinedDomains())
    op,        \* name of the last operation called, "idle" before any call
    args,      \* arguments and collaborator answers of the last call
    trace,     \* calls the operation made on its collaborators, in order
    outcome    \* how the call ended: a returned value or a raised exception

vars == <<active, defined, op, args, trace, outcome>>

(***************************************************************************)
(* Bounds.                                                                 *)
(***************************************************************************)
MaxDomains == 2      \* domains the host may know
MaxRequested == 2    \* names passed to _get_domain

(***************************************************************************)
(* Python values.                                                          *)
(***************************************************************************)
None == "<None>"
Falsy(x) == x \in {None, ""}

Range(s) == {s[i] : i \in 1..Len(s)}
InjSeqs(S) == {s \in UNION {[1..n -> S] : n \in 0..Cardinality(S)} :
                 \A i, j \in 1..Len(s) : s[i] = s[j] => i = j}
SeqsUpTo(S, n) == UNION {[1..k -> S] : k \in 0..n}

VmName == <<"vm1", "vm2", "vm3", "vm4">>
HostNames == {VmName[i] : i \in 1..MaxDomains}
Unknown == "ghost"   \* a name no domain of the host bears

Ev(obj, call, arg) == <<obj, call, arg>>
Returns(v) == [kind |-> "return", exc |-> <<"none">>, value |-> v]
Raises(type, msg) == [kind |-> "raise", exc |-> <<type>> \o msg, value |-> <<>>]
Idle == [kind |-> "idle", exc |-> <<"none">>, value |-> <<>>]

(***************************************************************************)
(* virt.util.get_conn                                                      *)
(***************************************************************************)
OPT_uri == "qemu:///system"
Connections == {None, "xen:///system"}

conn_str(connection) == IF Falsy(connection) THEN OPT_uri ELSE connection

get_conn(connection, openFails) ==
    [trace |-> <<Ev("libvirt", "openAuth", conn_str(connection))>>,
     outcome |-> IF openFails
                   THEN Raises("Exception",
                          <<"Sorry, failed to open a connection to the hypervisor software at ",
                            conn_str(connection)>>)
                   ELSE Returns(<<"conn">>)]

(***************************************************************************)
(* virt.domain._get_domain                                                 *)
(***************************************************************************)
RECURSIVE LookupByIDs(_)
LookupByIDs(ids) ==
    IF ids = <<>> THEN <<>>
    ELSE <<Ev("conn", "lookupByID", Head(ids)), Ev("dom", "name", Head(ids))>>
           \o LookupByIDs(Tail(ids))

RECURSIVE LookupByNames(_)
LookupByNames(names) ==
    IF names = <<>> THEN <<>>
    ELSE <<Ev("conn", "lookupByName", Head(names))>> \o LookupByNames(Tail(names))

Admitted(act, def, wantActive, wantInactive) ==
    (IF wantActive THEN act ELSE <<>>) \o (IF wantInactive THEN def ELSE <<>>)

Enumerate(act, wantActive, wantInactive) ==
    (IF wantActive
       THEN <<Ev("conn", "listDomainsID", "")>> \o LookupByIDs(act) ELSE <<>>)
    \o (IF wantInactive THEN <<Ev("conn", "listDefinedDomains", "")>> ELSE <<>>)

\* the check of the names had it reported the last missing name
LastMissing(vms, all_vms) ==
    vms[CHOOSE i \in 1..Len(vms) :
          /\ vms[i] \notin Range(all_vms)
          /\ \A j \in (i + 1)..Len(vms) : vms[j] \in Range(all_vms)]

\* lines 259-261: the first requested name that is not enumerated
FirstMissing(vms, all_vms) ==
    vms[CHOOSE i \in 1..Len(vms) :
          /\ vms[i] \notin Range(all_vms)
          /\ \A j \in 1..(i - 1) : vms[j] \in Range(all_vms)]

\* _get_domain without lines 255-256
NoEmptyCheck(all_vms) == FALSE

\* line 255: if not all_vms
EmptyCheck(all_vms) == all_vms = <<>>

\* line 270 without its test of iterable
BareWhenSingle(ret, iterable) == Len(ret) = 1

\* line 270: len(ret) == 1 and not iterable and ret[0]; a domain handle is true
Bare(ret, iterable) == Len(ret) = 1 /\ ~iterable

\* the value is [bare |-> a bare handle is returned, doms |-> the handles]
get_domain(act, def, vms, iterable, wantActive, wantInactive) ==
    LET all_vms == Admitted(act, def, wantActive, wantInactive)
        enum    == Enumerate(act, wantActive, wantInactive)
    IN  IF EmptyCheck(all_vms)
          THEN [trace |-> enum,
                outcome |-> Raises("Exception", <<"No virtual machines found.">>)]
        ELSE IF vms # <<>> /\ \E i \in 1..Len(vms) : vms[i] \notin Range(all_vms)
          THEN [trace |-> enum,
                outcome |-> Raises("Exception",
                              <<"The VM \"", FirstMissing(vms, all_vms), "\" is not present">>)]
        ELSE LET lookup_vms == IF vms # <<>> THEN vms ELSE all_vms
             IN  [trace |-> enum \o LookupByNames(lookup_vms),
                  outcome |-> Returns([bare |-> Bare(lookup_vms, iterable),
                                       doms |-> lookup_vms])]

(***************************************************************************)
(* virt.domain._parse_qemu_img_info                                        *)
(*                                                                         *)
(* The text qemu-img printed is one of: nothing, text that is not JSON,    *)
(* the JSON value null, a JSON object (the answer without a backing        *)
(* chain), or a JSON list of layer objects.  A layer object is a function  *)
(* from its keys to its values.  The parsed disks live in a heap (a        *)
(* sequence of dictionaries): Python stores a reference in 'backing file', *)
(* modelled as <<"obj", index>>, a path is <<"str", path>>.                *)
(***************************************************************************)
MaxLayers == 3       \* layers of a backing chain
Fuel == 4            \* depth to which a descriptor is unfolded for reading

Files == {"a", "b", "c"}
NoFile == "x"        \* a path that is the file of no layer

Has(d, k) == k \in DOMAIN d
PyStr(s) == <<"str", s>>
PyInt(n) == <<"int", n>>
PyNone == <<"None">>
Obj(i) == <<"obj", i>>

RequiredKeys == {"filename", "format", "actual-size", "virtual-size"}

\* lines 345-368: the dictionary built for one layer object; of a snapshot the
\* id, tag and vmsize are kept, its two formatted times are left out
DiskOfLayer(disk_infos) ==
    ("file" :> disk_infos["filename"])
    @@ ("file format" :> disk_infos["format"])
    @@ ("disk size" :> disk_infos["actual-size"])
    @@ ("virtual size" :> disk_infos["virtual-size"])
    @@ ("cluster size" :> IF Has(disk_infos, "cluster-size")
                            THEN PyInt(disk_infos["cluster-size"]) ELSE PyNone)
    @@ (IF Has(disk_infos, "full-backing-filename")
          THEN "backing file" :> PyStr(disk_infos["full-backing-filename"])
          ELSE <<>>)
    @@ (IF Has(disk_infos, "snapshots")
          THEN "snapshots" :> [i \in 1..Len(disk_infos["snapshots"]) |->
                                 [id |-> disk_infos["snapshots"][i]["id"],
                                  tag |-> disk_infos["snapshots"][i]["name"],
                                  vmsize |-> disk_infos["snapshots"][i]["vm-state-size"]]]
          ELSE <<>>)

\* line 372: the layers whose file is the backing path of disk d
Candidates(heap, n, d) ==
    {j \in 1..n : Has(heap[j], "file") /\ PyStr(heap[j]["file"]) = heap[d]["backing file"]}

Min(S) == CHOOSE x \in S : \A y \in S : x <= y
Max(S) == CHOOSE x \in S : \A y \in S : x >= y

\* line 374, candidates[0]
FirstCandidate(cands) == Min(cands)

\* line 374 had it stored a copy of the candidate instead of the candidate
LinkCopy(heap, d, j) ==
    [i \in 1..(Len(heap) + 1) |->
       IF i = Len(heap) + 1 THEN heap[j]
       ELSE IF i = d THEN [heap[d] EXCEPT !["backing file"] = Obj(Len(heap) + 1)]
       ELSE heap[i]]

\* line 374: disk['backing file'] = candidates[0], a reference to the layer
Link(heap, d, j) == [heap EXCEPT ![d] = [@ EXCEPT !["backing file"] = Obj(j)]]

\* lines 370-374: one pass over the disks, in parse order
RECURSIVE Relink(_, _, _)
Relink(heap, n, d) ==
    IF d > n THEN heap
    ELSE IF Has(heap[d], "backing file") /\ Candidates(heap, n, d) # {}
      THEN Relink(Link(heap, d, FirstCandidate(Candidates(heap, n, d))), n, d + 1)
      ELSE Relink(heap, n, d + 1)

\* what a reader of disk i sees, references followed to the given depth
RECURSIVE Expand(_, _, _)
Expand(heap, i, fuel) ==
    [k \in DOMAIN heap[i] |->
       IF k = "backing file" /\ heap[i][k][1] = "obj"
         THEN IF fuel = 0 THEN <<"deeper">>
              ELSE <<"disk", Expand(heap, heap[i][k][2], fuel - 1)>>
         ELSE heap[i][k]]

\* the value is [heap |-> the disks, root |-> index of the disk returned]
parse_qemu_img_info(info) ==
    IF info.kind \in {"empty", "garbage"}
      THEN Raises("JSONDecodeError", <<>>)
    ELSE IF info.kind \in {"null", "object"}
      THEN Raises("TypeError", <<>>)
    ELSE IF \E i \in 1..Len(info.layers) : ~(RequiredKeys \subseteq DOMAIN info.layers[i])
      THEN Raises("KeyError", <<>>)
    ELSE IF info.layers = <<>>
      THEN Raises("IndexError", <<>>)
    ELSE Returns([heap |-> Relink([i \in 1..Len(info.layers) |-> DiskOfLayer(info.layers[i])],
                                  Len(info.layers), 1),
                  root |-> 1])

(***************************************************************************)
(* xml.etree.ElementTree: an element is [tag, attrib, text, children].     *)
(***************************************************************************)
Elem(tag, attrib, text, children) ==
    [tag |-> tag, attrib |-> attrib, text |-> text, children |-> children]
NoAttrib == <<>>

\* Element.get(key, default)
Get(attrib, key, default) == IF key \in DOMAIN attrib THEN attrib[key] ELSE default

\* Element.findall(tag): the children bearing the tag, in document order
FindAll(elem, tag) == SelectSeq(elem.children, LAMBDA c : c.tag = tag)

\* Element.findall('devices/<tag>'): over every devices child, in order
RECURSIVE FindAllIn(_, _)
FindAllIn(parents, tag) ==
    IF parents = <<>> THEN <<>>
    ELSE FindAll(Head(parents), tag) \o FindAllIn(Tail(parents), tag)
FindDevices(doc, tag) == FindAllIn(FindAll(doc, "devices"), tag)

Update(d, o) == [k \in (DOMAIN d) \cup (DOMAIN o) |-> IF k \in DOMAIN o THEN o[k] ELSE d[k]]

(***************************************************************************)
(* virt.domain._get_disks                                                  *)
(*                                                                         *)
(* answers[i] is what running qemu-img for the i-th disk element gives:    *)
(* kind "absent" when the binary cannot be started, else the text printed. *)
(***************************************************************************)
\* line 397: '{0}:{1}'.format(protocol, name), over the strings of the model
Format2(protocol, name) ==
    CASE protocol = "rbd" /\ name = "pool/img" -> "rbd:pool/img"
      [] protocol = "rbd" /\ name = ""         -> "rbd:"
      [] protocol = ""    /\ name = "pool/img" -> ":pool/img"
      [] protocol = ""    /\ name = ""         -> ":"

\* lines 393-399: the path of the disk, '' when none can be derived
QemuTarget(source) ==
    IF ~Falsy(Get(source.attrib, "file", "")) THEN source.attrib["file"]
    ELSE IF ~Falsy(Get(source.attrib, "dev", "")) THEN source.attrib["dev"]
    ELSE IF "protocol" \in DOMAIN source.attrib /\ "name" \in DOMAIN source.attrib
      THEN Format2(source.attrib["protocol"], source.attrib["name"])
    ELSE ""

\* line 414: the exceptions the try block of _get_disks handles
Tolerated == {"TypeError"}

\* line 406: the disk has a driver child of type qcow2
IsQcow2(elem) ==
    /\ FindAll(elem, "driver") # <<>>
    /\ Get(Head(FindAll(elem, "driver")).attrib, "type", None) = "qcow2"

\* lines 412-415: the disk after the answer of qemu-img was parsed
DiskParsed(disk, parsed) ==
    IF parsed.kind = "return"
      THEN Returns(Update(disk, Expand(parsed.value.heap, parsed.value.root, Fuel)))
    ELSE IF parsed.exc[1] \in Tolerated
      THEN Returns(Update(disk, "file" :> "Does not exist"))
    ELSE parsed

\* lines 408-411: running qemu-img and parsing what it printed
Inspect(answer) ==
    IF answer.kind = "absent" THEN Raises("FileNotFoundError", <<>>)
    ELSE parse_qemu_img_info(answer)

\* line 403
NewDisk(elem, qemu_target) ==
    ("file" :> qemu_target) @@ ("type" :> Get(elem.attrib, "device", None))

\* lines 403-415: the dictionary of one disk, or the exception that escapes
DiskEntry(elem, qemu_target, answer) ==
    IF IsQcow2(elem) THEN DiskParsed(NewDisk(elem, qemu_target), Inspect(answer))
    ELSE Returns(NewDisk(elem, qemu_target))

\* lines 392-401: the element gets an entry
Reported(elem) ==
    /\ FindAll(elem, "source") # <<>>
    /\ FindAll(elem, "target") # <<>>
    /\ "dev" \in DOMAIN Head(FindAll(elem, "target")).attrib
    /\ ~Falsy(QemuTarget(Head(FindAll(elem, "source"))))

\* the calls made for the element
DiskEvents(elem, path) ==
    IF IsQcow2(elem) THEN <<Ev("subprocess", "qemu-img", path)>> ELSE <<>>

\* lines 385-417: the loop over the disk elements, from element i on
RECURSIVE DisksFrom(_, _, _, _, _)
\* line 417, or the exception leaving the loop
DiskStep(elems, answers, i, disks, events, dev, entry) ==
    IF entry.kind = "raise" THEN [trace |-> events, outcome |-> entry]
    ELSE DisksFrom(elems, answers, i + 1, Update(disks, dev :> entry.value), events)

DiskElement(elems, answers, i, disks, events, elem, path) ==
    DiskStep(elems, answers, i, disks, events \o DiskEvents(elem, path),
             Head(FindAll(elem, "target")).attrib["dev"],
             DiskEntry(elem, path, answers[i]))

DisksFrom(elems, answers, i, disks, events) ==
    IF i > Len(elems) THEN [trace |-> events, outcome |-> Returns(disks)]
    ELSE IF ~Reported(elems[i]) THEN DisksFrom(elems, answers, i + 1, disks, events)
    ELSE DiskElement(elems, answers, i, disks, events, elems[i],
                     QemuTarget(Head(FindAll(elems[i], "source"))))

get_disks(dom, doc, answers) ==
    DisksFrom(FindDevices(doc, "disk"), answers, 1, <<>>,
              <<Ev("dom", "XMLDesc", dom), Ev("xml", "fromstring", dom)>>)

(***************************************************************************)
(* virt.domain: the other parts of a domain descriptor                     *)
(***************************************************************************)
XmlRead(dom) == <<Ev("dom", "XMLDesc", dom), Ev("xml", "fromstring", dom)>>

\* re.match('(driver|source|address)', tag): the tag starts with one of them
AttribGroupTags == {"driver", "source", "address", "sourcefoo"}

\* lines 293-315: the dictionary of one interface element, child by child
RECURSIVE NicFrom(_, _)
NicFrom(children, nic) ==
    IF children = <<>> THEN nic
    ELSE LET v_node == Head(children)
             n1 == IF v_node.tag = "mac"
                     THEN Update(nic, "mac" :> Get(v_node.attrib, "address", None)) ELSE nic
             n2 == IF v_node.tag = "model"
                     THEN Update(n1, "model" :> Get(v_node.attrib, "type", None)) ELSE n1
             n3 == IF v_node.tag = "target"
                     THEN Update(n2, "target" :> Get(v_node.attrib, "dev", None)) ELSE n2
             n4 == IF v_node.tag \in AttribGroupTags
                     THEN Update(n3, v_node.tag :> v_node.attrib) ELSE n3
             n5 == IF v_node.tag = "virtualport"
                     THEN Update(n4, "virtualport" :>
                            Update("type" :> Get(v_node.attrib, "type", None), v_node.attrib))
                     ELSE n4
         IN  NicFrom(Tail(children), n5)

RECURSIVE NicsFrom(_, _)
NicsFrom(ifaces, nics) ==
    IF ifaces = <<>> THEN nics
    ELSE LET nic == NicFrom(Head(ifaces).children,
                            "type" :> Get(Head(ifaces).attrib, "type", None))
         IN  IF "mac" \notin DOMAIN nic
               THEN NicsFrom(Tail(ifaces), nics)
               ELSE NicsFrom(Tail(ifaces), Update(nics, nic["mac"] :> nic))

get_nics(dom, doc) ==
    [trace |-> XmlRead(dom),
     outcome |-> Returns(NicsFrom(FindDevices(doc, "interface"), <<>>))]

GraphicsTemplate ==
    [autoport |-> "None", keymap |-> "None", listen |-> "None", port |-> "None", type |-> "None"]

RECURSIVE GraphicsFrom(_, _)
GraphicsFrom(g_nodes, out) ==
    IF g_nodes = <<>> THEN out
    ELSE GraphicsFrom(Tail(g_nodes), Update(out, Head(g_nodes).attrib))

get_graphics(dom, doc) ==
    [trace |-> XmlRead(dom),
     outcome |-> Returns(GraphicsFrom(FindDevices(doc, "graphics"), GraphicsTemplate))]

get_uuid(dom, doc) ==
    [trace |-> XmlRead(dom),
     outcome |-> IF FindAll(doc, "uuid") = <<>>
                   THEN Raises("AttributeError", <<>>)
                   ELSE Returns(Head(FindAll(doc, "uuid")).text)]

\* _get_on_poweroff, _get_on_reboot, _get_on_crash
get_on(dom, doc, event) ==
    [trace |-> XmlRead(dom),
     outcome |-> Returns(IF FindAll(doc, event) = <<>> THEN ""
                         ELSE Head(FindAll(doc, event)).text)]

(***************************************************************************)
(* virt.domain.info._info and virt.domain.state._info                      *)
(*                                                                         *)
(* A number of the raw tuple is a fraction [num, den], den > 0, so that    *)
(* int() has something to truncate.                                        *)
(***************************************************************************)
Num(n, d) == [num |-> n, den |-> d]

\* int(x): truncation toward zero
py_int(x) == IF x.num >= 0 THEN x.num \div x.den ELSE -((-x.num) \div x.den)

\* raw[i] of a Python list
At(raw, i) == raw[i + 1]

\* the table with code 5 entered as crashed and code 6 left out
VIRT_STATE_NAME_MAP_SLIP ==
    [c \in 0..5 |-> CASE c \in {0, 1, 2} -> "running"
                      [] c = 3 -> "paused"
                      [] c = 4 -> "shutdown"
                      [] c = 5 -> "crashed"]

\* lines 15-21
VIRT_STATE_NAME_MAP ==
    [c \in 0..6 |-> CASE c \in {0, 1, 2} -> "running"
                      [] c = 3 -> "paused"
                      [] c \in {4, 5} -> "shutdown"
                      [] c = 6 -> "crashed"]

\* VIRT_STATE_NAME_MAP.get(code, 'unknown')
StateName(code) ==
    IF code \in DOMAIN VIRT_STATE_NAME_MAP THEN VIRT_STATE_NAME_MAP[code] ELSE "unknown"

\* the steps of a dictionary display, in order, up to the first that raises
FirstRaise(steps) ==
    IF \A i \in 1..Len(steps) : steps[i].outcome.kind # "raise" THEN 0
    ELSE CHOOSE i \in 1..Len(steps) :
           /\ steps[i].outcome.kind = "raise"
           /\ \A j \in 1..(i - 1) : steps[j].outcome.kind # "raise"

RECURSIVE Traces(_, _)
Traces(steps, n) ==
    IF n = 0 \/ steps = <<>> THEN <<>> ELSE Head(steps).trace \o Traces(Tail(steps), n - 1)

\* lines 169-180: the dictionary, its entries evaluated in order
InfoRecord(dom, raw, steps, bad) ==
    IF bad # 0
      THEN [trace |-> <<Ev("dom", "info", dom)>> \o Traces(steps, bad),
            outcome |-> steps[bad].outcome]
      ELSE [trace |-> <<Ev("dom", "info", dom)>> \o Traces(steps, Len(steps)),
            outcome |-> Returns(
               [cpu |-> At(raw, 3),
                cputime |-> py_int(At(raw, 4)),
                disks |-> steps[1].outcome.value,
                graphics |-> steps[2].outcome.value,
                nics |-> steps[3].outcome.value,
                uuid |-> steps[4].outcome.value,
                on_crash |-> steps[5].outcome.value,
                on_reboot |-> steps[6].outcome.value,
                on_poweroff |-> steps[7].outcome.value,
                maxMem |-> py_int(At(raw, 1)),
                mem |-> py_int(At(raw, 2)),
                state |-> StateName(At(raw, 0))])]

InfoSteps(dom, raw, steps) == InfoRecord(dom, raw, steps, FirstRaise(steps))

info_info(dom, raw, doc, answers) ==
    InfoSteps(dom, raw,
              <<get_disks(dom, doc, answers), get_graphics(dom, doc), get_nics(dom, doc),
                get_uuid(dom, doc), get_on(dom, doc, "on_crash"),
                get_on(dom, doc, "on_reboot"), get_on(dom, doc, "on_poweroff")>>)

state_info(dom, raw) ==
    [trace |-> <<Ev("dom", "info", dom)>>,
     outcome |-> Returns(StateName(At(raw, 0)))]

(***************************************************************************)
(* virt.node: hypervisor detection.  A text is a sequence of characters.   *)
(***************************************************************************)
KvmMarker == <<"k", "v", "m", "_">>
XenMarker == <<"x", "e", "n", "_">>
DaemonMarker == <<"l", "i", "b", "v", "i", "r", "t", "d">>
T_kvm_virtio == <<"k", "v", "m", "_", "v", "i", "r", "t", "i", "o">>
T_xen_blk == <<"x", "e", "n", "_", "b", "l", "k">>
T_both == <<"x", "e", "n", "_", "b", "l", "k", " ", "k", "v", "m", "_", "v", "i", "r", "t", "i", "o">>
T_kvm == <<"k", "v", "m", " ", "x", "e", "n">>
T_running == <<"l", "i", "b", "v", "i", "r", "t", "d", " ", "i", "s", " ", "r", "u", "n", "n", "i", "n", "g">>
T_other == <<"s", "s", "h", "d">>
T_empty == <<>>

\* sub in text
Contains(text, sub) ==
    \E i \in 1..(Len(text) - Len(sub) + 1) : SubSeq(text, i, i + Len(sub) - 1) = sub

OpenModules == Ev("fs", "open", "/proc/modules")
RunPs(env) == Ev("hub", "cmd.run", env.grains["ps"])

\* _is_kvm_hyper had the handler of line 230 passed instead of returning False
is_kvm_hyper_pass(env) ==
    IF env.readable /\ ~Contains(env.modules, KvmMarker)
      THEN [trace |-> <<OpenModules>>, outcome |-> Returns(FALSE)]
    ELSE [trace |-> <<OpenModules, RunPs(env)>>,
          outcome |-> Returns(Contains(env.ps[1], DaemonMarker))]

\* env.ps[1] is what the process listing prints for the KVM check
is_kvm_hyper(env) ==
    IF ~env.readable THEN [trace |-> <<OpenModules>>, outcome |-> Returns(FALSE)]
    ELSE IF ~Contains(env.modules, KvmMarker)
      THEN [trace |-> <<OpenModules>>, outcome |-> Returns(FALSE)]
    ELSE [trace |-> <<OpenModules, RunPs(env)>>,
          outcome |-> Returns(Contains(env.ps[1], DaemonMarker))]

\* env.ps[2] is what the process listing prints for the Xen check
is_xen_hyper(env) ==
    IF "virtual_subtype" \notin DOMAIN env.grains
      THEN [trace |-> <<>>, outcome |-> Returns(FALSE)]
    ELSE IF env.grains["virtual_subtype"] # "Xen Dom0"
      THEN [trace |-> <<>>, outcome |-> Returns(FALSE)]
    ELSE IF ~env.readable THEN [trace |-> <<OpenModules>>, outcome |-> Returns(FALSE)]
    ELSE IF ~Contains(env.modules, XenMarker)
      THEN [trace |-> <<OpenModules>>, outcome |-> Returns(FALSE)]
    ELSE [trace |-> <<OpenModules, RunPs(env)>>,
          outcome |-> Returns(Contains(env.ps[2], DaemonMarker))]

\* the list of line 45 in the other order
hypervisors_xen_first == <<"xen", "kvm">>

\* line 45
hypervisors == <<"kvm", "xen">>

\* line 46: getattr(sys.modules[__name__], '_is_{}_hyper'.format(hyper))(hub)
Strategy(hyper, env) == IF hyper = "kvm" THEN is_kvm_hyper(env) ELSE is_xen_hyper(env)

RECURSIVE ChecksTrace(_, _)
ChecksTrace(checks, i) ==
    IF i > Len(checks) THEN <<>> ELSE checks[i].trace \o ChecksTrace(checks, i + 1)

\* line 47: result[0] if result else None
FirstMatch(names, checks) ==
    IF \A i \in 1..Len(names) : ~checks[i].outcome.value THEN None
    ELSE names[CHOOSE i \in 1..Len(names) :
                 /\ checks[i].outcome.value
                 /\ \A j \in 1..(i - 1) : ~checks[j].outcome.value]

Detected(names, checks) ==
    [trace |-> ChecksTrace(checks, 1), outcome |-> Returns(FirstMatch(names, checks))]

\* line 46: every strategy is evaluated, in the order of the list
get_hypervisor(env) ==
    Detected(hypervisors, [i \in 1..Len(hypervisors) |-> Strategy(hypervisors[i], env)])

(***************************************************************************)
(* virt.node._node_info                                                    *)
(***************************************************************************)
\* _node_info with the positions of sockets and cores exchanged
node_info_swapped(raw) ==
    [trace |-> <<Ev("conn", "getInfo", "")>>,
     outcome |-> Returns([cpucores   |-> At(raw, 5),
                          cpumhz     |-> At(raw, 3),
                          cpumodel   |-> At(raw, 0),
                          cpus       |-> At(raw, 2),
                          cputhreads |-> At(raw, 7),
                          numanodes  |-> At(raw, 4),
                          phymemory  |-> At(raw, 1),
                          sockets    |-> At(raw, 6)])]

node_info(raw) ==
    [trace |-> <<Ev("conn", "getInfo", "")>>,
     outcome |-> Returns([cpucores   |-> At(raw, 6),
                          cpumhz     |-> At(raw, 3),
                          cpumodel   |-> At(raw, 0),
                          cpus       |-> At(raw, 2),
                          cputhreads |-> At(raw, 7),
                          numanodes  |-> At(raw, 4),
                          phymemory  |-> At(raw, 1),
                          sockets    |-> At(raw, 5)])]

(***************************************************************************)
(* virt.node.pool_capabilities                                             *)
(***************************************************************************)
all_hypervisors == <<"xen", "kvm", "bhyve">>
images_formats == <<"none", "raw", "dir", "bochs", "cloop", "dmg", "iso", "vpc", "vdi",
                    "fat", "vhd", "ploop", "cow", "qcow", "qcow2", "qed", "vmdk">>

\* lines 80-138
common_drivers == <<
    [name |-> "fs", default_source_format |-> "auto",
     source_formats |-> <<"auto", "ext2", "ext3", "ext4", "ufs", "iso9660", "udf", "gfs",
                          "gfs2", "vfat", "hfs+", "xfs", "ocfs2">>,
     default_target_format |-> "raw", target_formats |-> images_formats],
    [name |-> "dir", default_target_format |-> "raw", target_formats |-> images_formats],
    [name |-> "iscsi"],
    [name |-> "scsi"],
    [name |-> "logical", default_source_format |-> "lvm2",
     source_formats |-> <<"unknown", "lvm2">>],
    [name |-> "netfs", default_source_format |-> "auto",
     source_formats |-> <<"auto", "nfs", "glusterfs", "cifs">>,
     default_target_format |-> "raw", target_formats |-> images_formats],
    [name |-> "disk", default_source_format |-> "unknown",
     source_formats |-> <<"unknown", "dos", "dvh", "gpt", "mac", "bsd", "pc98", "sun", "lvm2">>,
     default_target_format |-> "none",
     target_formats |-> <<"none", "linux", "fat16", "fat32", "linux-swap", "linux-lvm",
                          "linux-raid", "extended">>],
    [name |-> "mpath"],
    [name |-> "rbd", default_target_format |-> "raw", target_formats |-> <<>>],
    [name |-> "sheepdog", version |-> 10000, hypervisors |-> <<"kvm">>,
     default_target_format |-> "raw", target_formats |-> images_formats],
    [name |-> "gluster", version |-> 1002000, hypervisors |-> <<"kvm">>,
     default_target_format |-> "raw", target_formats |-> images_formats],
    [name |-> "zfs", version |-> 1002008, hypervisors |-> <<"bhyve">>],
    [name |-> "iscsi-direct", version |-> 4007000, hypervisors |-> <<"kvm", "xen">>] >>

\* lines 146-147 with the minimum version itself left out
SupportedAbove(backend, libvirt_version, hypervisor) ==
    /\ (~Has(backend, "version") \/ backend.version = 0 \/ libvirt_version > backend.version)
    /\ hypervisor \in Range(IF Has(backend, "hypervisors")
                              THEN backend.hypervisors ELSE all_hypervisors)

\* line 146-147
Supported(backend, libvirt_version, hypervisor) ==
    /\ (~Has(backend, "version") \/ backend.version = 0 \/ libvirt_version >= backend.version)
    /\ hypervisor \in Range(IF Has(backend, "hypervisors")
                              THEN backend.hypervisors ELSE all_hypervisors)

\* backend.get(key) for a text: None when the key is absent
GetText(backend, key) == IF Has(backend, key) THEN backend[key] ELSE None
\* backend.get(key) for a list: None when the key is absent
GetList(backend, key) == IF Has(backend, key) THEN <<"list", backend[key]>> ELSE PyNone

\* lines 143-167
get_backend_output(backend, libvirt_version, hypervisor) ==
    LET pool   == [default_format |-> GetText(backend, "default_source_format"),
                   sourceFormatType |-> GetList(backend, "source_formats")]
        volume == [default_format |-> GetText(backend, "default_target_format"),
                   targetFormatType |-> GetList(backend, "target_formats")]
        keepPool   == pool.default_format # None \/ pool.sourceFormatType # PyNone
        keepVolume == volume.default_format # None \/ volume.targetFormatType # PyNone
        options == (IF keepPool THEN "pool" :> pool ELSE <<>>)
                   @@ (IF keepVolume THEN "volume" :> volume ELSE <<>>)
    IN  ("name" :> backend.name)
        @@ ("supported" :> Supported(backend, libvirt_version, hypervisor))
        @@ (IF keepPool \/ keepVolume THEN "options" :> options ELSE <<>>)

\* lines 198-217: one pool element of the capability document
OptionsOf(pool, option_kind) ==
    LET groups  == FindAll(pool, option_kind)   \* the <kind>Options children
        formats == FindAllIn(groups, "defaultFormat")
        enums   == FindAllIn(groups, "enum")
        byName  == [n \in {enums[i].attrib["name"] : i \in 1..Len(enums)} |->
                      LET last == Max({i \in 1..Len(enums) : enums[i].attrib["name"] = n})
                      IN  <<"list", [v \in 1..Len(FindAll(enums[last], "value")) |->
                                       FindAll(enums[last], "value")[v].text]>>]
    IN  Update(IF formats # <<>>
                 THEN "default_format" :> <<"text", Get(Head(formats).attrib, "type", None)>>
                 ELSE <<>>,
               byName)

parse_pool_caps(pool) ==
    LET poolOpts == OptionsOf(pool, "poolOptions")
        volOpts  == OptionsOf(pool, "volOptions")
        options  == (IF DOMAIN poolOpts # {} THEN "pool" :> poolOpts ELSE <<>>)
                    @@ (IF DOMAIN volOpts # {} THEN "volume" :> volOpts ELSE <<>>)
    IN  ("name" :> Get(pool.attrib, "type", None))
        @@ ("supported" :> (Get(pool.attrib, "supported", "no") = "yes"))
        @@ (IF DOMAIN options # {} THEN "options" :> options ELSE <<>>)

parse_pools_caps(doc) ==
    [i \in 1..Len(FindAll(doc, "pool")) |-> parse_pool_caps(FindAll(doc, "pool")[i])]

(***************************************************************************)
(* The host of the public operations: what its domains answer.             *)
(***************************************************************************)
Layer(file, size) ==
    [k \in RequiredKeys |->
       CASE k = "filename" -> file
         [] k = "format" -> "qcow2"
         [] k = "actual-size" -> size
         [] k = "virtual-size" -> 10 * size]
Backed(layer, path) == Update(layer, "full-backing-filename" :> path)
Chain(layers) == [kind |-> "list", layers |-> layers]
Printed(kind) == [kind |-> kind, layers |-> <<>>]

DiskElem(device, children) == Elem("disk", "device" :> device, "", children)
DomainDoc(uuid, devices) ==
    Elem("domain", NoAttrib, "",
         <<Elem("uuid", NoAttrib, uuid, <<>>),
           Elem("devices", NoAttrib, "", devices),
           Elem("on_crash", NoAttrib, "destroy", <<>>)>>)

HostDoc(dom) ==
    IF dom = VmName[1]
      THEN DomainDoc("uuid-1",
             <<DiskElem("disk", <<Elem("driver", "type" :> "qcow2", "", <<>>),
                                  Elem("source", "file" :> "b", "", <<>>),
                                  Elem("target", "dev" :> "vda", "", <<>>)>>),
               Elem("interface", "type" :> "network", "",
                    <<Elem("mac", "address" :> "52:54:00:00:00:01", "", <<>>)>>),
               Elem("graphics", "type" :> "vnc", "", <<>>)>>)
      ELSE DomainDoc("uuid-n",
             <<DiskElem("cdrom", <<Elem("driver", "type" :> "raw", "", <<>>),
                                   Elem("source", "dev" :> "/dev/sr0", "", <<>>),
                                   Elem("target", "dev" :> "hdc", "", <<>>)>>)>>)

HostAnswers(dom) == <<Chain(<<Backed(Layer("b", 2), "a"), Layer("a", 1)>>)>>

HostRaw(dom) ==
    IF dom = VmName[1] THEN <<1, Num(4096, 1), Num(2048, 1), 2, Num(7, 2)>>
    ELSE <<5, Num(1024, 1), Num(1024, 1), 1, Num(0, 1)>>

HostNodeRaw == <<"x86_64", 4096, 8, 2712, 1, 2, 4, 2>>

(***************************************************************************)
(* The frame of a public operation.                                        *)
(***************************************************************************)
\* the exception a failing call on a collaborator raises
FailureOf(ev) ==
    CASE ev[1] \in {"conn", "dom"} -> Raises("libvirtError", <<>>)
      [] ev[1] = "xml" -> Raises("ParseError", <<>>)
      [] ev[1] = "subprocess" -> Raises("FileNotFoundError", <<>>)
      [] OTHER -> Raises("CalledProcessError", <<>>)

\* the calls whose failure the code lets escape; an open() that fails is handled
CanFail(ev) == ev[1] # "fs"

\* the body when its failAt-th call fails (0: none fails)
Inject(body, failAt) ==
    IF failAt \in 1..Len(body.trace) /\ CanFail(body.trace[failAt])
      THEN [trace |-> SubSeq(body.trace, 1, failAt),
            outcome |-> FailureOf(body.trace[failAt])]
      ELSE body

Close == Ev("conn", "close", "")

\* the close written after the body instead of in a finally clause
CloseOnReturn(body) ==
    IF body.outcome.kind = "raise" THEN body
    ELSE [trace |-> body.trace \o <<Close>>, outcome |-> body.outcome]

\* try: body finally: conn.close()
Finally(body) == [trace |-> body.trace \o <<Close>>, outcome |-> body.outcome]

\* the call once get_conn returned or raised
Opened(opened, rest) ==
    IF opened.outcome.kind = "raise" THEN opened
    ELSE [trace |-> opened.trace \o rest.trace, outcome |-> rest.outcome]

\* conn = await get_conn(...); try: body finally: conn.close(); return
WithConn(connection, openFails, body, failAt) ==
    Opened(get_conn(connection, openFails), Finally(Inject(body, failAt)))

(***************************************************************************)
(* Bodies of the public operations of virt.domain (the try blocks).        *)
(***************************************************************************)
RECURSIVE NameCalls(_)
NameCalls(doms) ==
    IF doms = <<>> THEN <<>>
    ELSE <<Ev("dom", "name", Head(doms))>> \o NameCalls(Tail(doms))

\* lines 52-53: for dom in found: vms.append(dom.name())
Names(found) ==
    IF found.outcome.kind = "raise" THEN found
    ELSE [trace |-> found.trace \o NameCalls(found.outcome.value.doms),
          outcome |-> Returns(found.outcome.value.doms)]

\* list_all, list_active, list_inactive: lines 52-53, 76-77, 100-101
list_body(act, def, wantActive, wantInactive) ==
    Names(get_domain(act, def, <<>>, TRUE, wantActive, wantInactive))

\* line 126: _get_domain(conn, vm_).XMLDesc(0)
XmlOf(found, vm_) ==
    IF found.outcome.kind = "raise" THEN found
    ELSE [trace |-> found.trace \o <<Ev("dom", "XMLDesc", vm_)>>,
          outcome |-> Returns(HostDoc(vm_))]

\* get_xml: lines 124-126
get_xml_body(act, def, vm_, isHandle) ==
    IF isHandle
      THEN [trace |-> <<Ev("dom", "XMLDesc", vm_)>>, outcome |-> Returns(HostDoc(vm_))]
      ELSE XmlOf(get_domain(act, def, <<vm_>>, FALSE, TRUE, TRUE), vm_)

\* the nested _info of info (detailed) and of state
InfoOf(dom, detailed) ==
    IF detailed THEN info_info(dom, HostRaw(dom), HostDoc(dom), HostAnswers(dom))
    ELSE state_info(dom, HostRaw(dom))

\* lines 187-188, 226-227: for domain in ...: info[domain.name()] = _info(domain)
RECURSIVE InfoLoop(_, _, _, _)
InfoNext(doms, detailed, info, events, one) ==
    IF one.outcome.kind = "raise"
      THEN [trace |-> events \o one.trace, outcome |-> one.outcome]
      ELSE InfoLoop(Tail(doms), detailed, Update(info, Head(doms) :> one.outcome.value),
                    events \o one.trace)

InfoLoop(doms, detailed, info, events) ==
    IF doms = <<>> THEN [trace |-> events, outcome |-> Returns(info)]
    ELSE InfoNext(doms, detailed, info, events \o <<Ev("dom", "name", Head(doms))>>,
                  InfoOf(Head(doms), detailed))

\* line 185, 224: info[vm_] = _info(_get_domain(conn, vm_))
InfoOne(found, vm_, one) ==
    IF found.outcome.kind = "raise" THEN found
    ELSE [trace |-> found.trace \o one.trace,
          outcome |-> IF one.outcome.kind = "raise" THEN one.outcome
                      ELSE Returns(vm_ :> one.outcome.value)]

InfoAll(found, detailed) ==
    IF found.outcome.kind = "raise" THEN found
    ELSE InfoLoop(found.outcome.value.doms, detailed, <<>>, found.trace)

\* info and state: lines 184-188, 223-227
info_body(act, def, vm_, detailed) ==
    IF ~Falsy(vm_)
      THEN InfoOne(get_domain(act, def, <<vm_>>, FALSE, TRUE, TRUE), vm_, InfoOf(vm_, detailed))
      ELSE InfoAll(get_domain(act, def, <<>>, TRUE, TRUE, TRUE), detailed)

(***************************************************************************)
(* virt.node.pool_capabilities, lines 69-175                               *)
(***************************************************************************)
BackendOutputs(drivers, libvirt_version, hypervisor) ==
    [i \in 1..Len(drivers) |-> get_backend_output(drivers[i], libvirt_version, hypervisor)]

\* the fallback had line 173 reported has_pool_capabilities itself
SynthesizedUnflagged(libvirt_version, detected) ==
    [trace |-> <<Ev("conn", "getLibVersion", "")>> \o detected.trace,
     outcome |-> Returns([computed |-> FALSE,
                          pool_types |-> BackendOutputs(common_drivers, libvirt_version,
                                                        detected.outcome.value)])]

\* lines 140-168
Synthesized(libvirt_version, detected) ==
    [trace |-> <<Ev("conn", "getLibVersion", "")>> \o detected.trace,
     outcome |-> Returns([computed |-> TRUE,
                          pool_types |-> BackendOutputs(common_drivers, libvirt_version,
                                                        detected.outcome.value)])]

pool_body(hasCaps, capsDoc, libvirt_version, env) ==
    IF hasCaps
      THEN [trace |-> <<Ev("conn", "getStoragePoolCapabilities", ""),
                        Ev("xml", "fromstring", "caps")>>,
            outcome |-> Returns([computed |-> FALSE, pool_types |-> parse_pools_caps(capsDoc)])]
      ELSE Synthesized(libvirt_version, get_hypervisor(env))

\* line 170 when get_conn raised: conn is not bound
UnboundConn ==
    Raises("UnboundLocalError", <<"local variable 'conn' referenced before assignment">>)

\* the call once get_conn, inside the try block, returned or raised
OpenedInTry(opened, rest) ==
    IF opened.outcome.kind = "raise"
      THEN [trace |-> opened.trace, outcome |-> UnboundConn]
      ELSE [trace |-> opened.trace \o rest.trace, outcome |-> rest.outcome]

\* get_conn is called inside the try block whose finally closes conn
pool_capabilities(connection, openFails, hasCaps, capsDoc, libvirt_version, env, failAt) ==
    OpenedInTry(get_conn(connection, openFails),
                Finally(Inject(pool_body(hasCaps, capsDoc, libvirt_version, env), failAt)))

(***************************************************************************)
(* Inputs.                                                                 *)
(***************************************************************************)
Populations ==
    {p \in InjSeqs(HostNames) \X InjSeqs(HostNames) : Range(p[1]) \cap Range(p[2]) = {}}

Grains == {"ps" :> "ps -ef",
           ("ps" :> "ps -ef") @@ ("virtual_subtype" :> "Xen Dom0"),
           ("ps" :> "ps -ef") @@ ("virtual_subtype" :> "Xen PV DomU")}
ModuleListings == {T_empty, T_kvm_virtio, T_xen_blk, T_both, T_kvm}
PsOutputs == {T_empty, T_running, T_other}
HyperEnvs == [readable : BOOLEAN, modules : ModuleListings, grains : Grains,
              ps : [1..2 -> PsOutputs]]
\* the hosts the public operations are tried on
HostEnvs == {e \in HyperEnvs : /\ e.readable
                               /\ e.modules \in {T_kvm_virtio, T_xen_blk}
                               /\ e.ps[1] = e.ps[2]
                               /\ e.ps[1] \in {T_empty, T_running}
                               /\ "virtual_subtype" \in DOMAIN e.grains
                               /\ e.grains["virtual_subtype"] = "Xen Dom0"}

CapsDoc ==
    Elem("storagepoolCapabilities", NoAttrib, "",
      <<Elem("pool", ("type" :> "dir") @@ ("supported" :> "yes"), "",
          <<Elem("volOptions", NoAttrib, "",
              <<Elem("defaultFormat", "type" :> "raw", "", <<>>),
                Elem("enum", "name" :> "targetFormatType", "",
                  <<Elem("value", NoAttrib, "none", <<>>),
                    Elem("value", NoAttrib, "raw", <<>>)>>)>>)>>),
        Elem("pool", "type" :> "zfs", "", <<>>)>>)

(***************************************************************************)
(* The public operations.                                                  *)
(***************************************************************************)
Call(o, a, r) ==
    /\ op = "idle"
    /\ op' = o
    /\ args' = a
    /\ trace' = r.trace
    /\ outcome' = r.outcome
    /\ UNCHANGED <<active, defined>>

\* a call with a connection: which connection, whether opening it fails, and
\* which call of the body fails (0: none)
ConnCall(o, a, body) ==
    /\ op = "idle"
    /\ \E connection \in Connections, openFails \in BOOLEAN, failAt \in 0..Len(body.trace) :
          /\ openFails => failAt = 0
          /\ Call(o,
                  Update(a, [connection |-> connection, openFails |-> openFails,
                             failAt |-> failAt]),
                  WithConn(connection, openFails, body, failAt))

ListAll == ConnCall("list_all", <<>>, list_body(active, defined, TRUE, TRUE))

ListActive == ConnCall("list_active", <<>>, list_body(active, defined, TRUE, FALSE))

ListInactive == ConnCall("list_inactive", <<>>, list_body(active, defined, FALSE, TRUE))

GetXml ==
    /\ op = "idle"
    /\ \E vm_ \in HostNames \cup {Unknown}, isHandle \in BOOLEAN :
       /\ isHandle => vm_ \in HostNames
       /\ ConnCall("get_xml", [vm_ |-> vm_, isHandle |-> isHandle],
                   get_xml_body(active, defined, vm_, isHandle))

Info ==
    /\ op = "idle"
    /\ \E vm_ \in HostNames \cup {Unknown, None} :
       ConnCall("info", [vm_ |-> vm_], info_body(active, defined, vm_, TRUE))

State ==
    /\ op = "idle"
    /\ \E vm_ \in HostNames \cup {Unknown, None} :
       ConnCall("state", [vm_ |-> vm_], info_body(active, defined, vm_, FALSE))

NodeInfo == ConnCall("node.info", <<>>, node_info(HostNodeRaw))

PoolCapabilities ==
    /\ op = "idle"
    /\ \E connection \in Connections, openFails \in BOOLEAN, hasCaps \in BOOLEAN,
       version \in {9999, 4007000}, env \in HostEnvs :
       \E failAt \in 0..Len(pool_body(hasCaps, CapsDoc, version, env).trace) :
          /\ openFails => failAt = 0 /\ hasCaps /\ version = 9999
          /\ hasCaps => version = 9999
          /\ Call("pool_capabilities",
                  [connection |-> connection, openFails |-> openFails, failAt |-> failAt,
                   hasCaps |-> hasCaps, version |-> version, env |-> env],
                  pool_capabilities(connection, openFails, hasCaps, CapsDoc, version, env,
                                    failAt))

\* _get_domain on an open connection
GetDomain ==
    /\ op = "idle"
    /\ \E vms \in SeqsUpTo(HostNames \cup {Unknown}, MaxRequested),
       iterable \in BOOLEAN, wantActive \in BOOLEAN, wantInactive \in BOOLEAN :
       Call("_get_domain",
            [vms |-> vms, iterable |-> iterable, active |-> wantActive,
             inactive |-> wantInactive],
            get_domain(active, defined, vms, iterable, wantActive, wantInactive))

\* the caller has the result; the next call starts from nothing
Done ==
    /\ op # "idle"
    /\ op' = "idle"
    /\ args' = <<>>
    /\ trace' = <<>>
    /\ outcome' = Idle
    /\ UNCHANGED <<active, defined>>

Init ==
    /\ \E p \in Populations : active = p[1] /\ defined = p[2]
    /\ op = "idle"
    /\ args = <<>>
    /\ trace = <<>>
    /\ outcome = Idle

Next ==
    \/ ListAll
    \/ ListActive
    \/ ListInactive
    \/ GetXml
    \/ Info
    \/ State
    \/ NodeInfo
    \/ PoolCapabilities
    \/ GetDomain
    \/ Done

Spec == Init /\ [][Next]_vars

(***************************************************************************)
(* The functions of the modules applied on their own, on a host without    *)
(* domains: every input of a bounded set is tried.                         *)
(***************************************************************************)
MaxNodeValue == 2    \* values of the numbers of getInfo()
MaxStateCode == 8    \* state codes of a domain
MaxNum == 2          \* numerators of the numbers of a domain's info
MaxDisks == 2        \* disk elements of a domain

InitAlone ==
    /\ active = <<>>
    /\ defined = <<>>
    /\ op = "idle"
    /\ args = <<>>
    /\ trace = <<>>
    /\ outcome = Idle

NodeRaws ==
    {<<m>> \o r : m \in {"x86_64", "aarch64"}, r \in [1..7 -> 1..MaxNodeValue]}

GetHypervisor ==
    /\ op = "idle"
    /\ \E env \in HyperEnvs : Call("get_hypervisor", [env |-> env], get_hypervisor(env))

NodeInfoOf ==
    /\ op = "idle"
    /\ \E raw \in NodeRaws : Call("_node_info", [raw |-> raw], node_info(raw))

\* the library versions tried: 0, every minimum of the table and the version below it
LibVersions ==
    {0} \cup UNION {{common_drivers[i].version - 1, common_drivers[i].version} :
                      i \in {j \in 1..Len(common_drivers) : Has(common_drivers[j], "version")}}

\* lines 140-168: the fallback of pool_capabilities on an open connection
PoolTypes ==
    /\ op = "idle"
    /\ \E libvirt_version \in LibVersions, env \in HyperEnvs :
          Call("pool_capabilities.synthesized",
               [libvirt_version |-> libvirt_version, env |-> env],
               Synthesized(libvirt_version, get_hypervisor(env)))

NextNode ==
    \/ GetHypervisor
    \/ NodeInfoOf
    \/ PoolTypes
    \/ Done

SpecNode == InitAlone /\ [][NextNode]_vars

Fractions == {Num(n, d) : n \in (-1)..MaxNum, d \in {1, 2}}
DomRaws ==
    {<<code, maxMem, mem, cpu, cputime>> :
       code \in (-1)..MaxStateCode, maxMem \in Fractions, mem \in Fractions,
       cpu \in {1, 2}, cputime \in Fractions}

DomainInfo ==
    /\ op = "idle"
    /\ \E raw \in DomRaws :
          Call("info._info", [raw |-> raw],
               info_info(VmName[1], raw, HostDoc(VmName[1]), HostAnswers(VmName[1])))

DomainState ==
    /\ op = "idle"
    /\ \E raw \in DomRaws :
          Call("state._info", [raw |-> raw], state_info(VmName[1], raw))

MaxIfaces == 3       \* interface elements of a domain
MaxGraphics == 2     \* graphics elements of a domain

Iface(type, children) == Elem("interface", "type" :> type, "", children)
Mac(address) == Elem("mac", "address" :> address, "", <<>>)

\* the interface elements tried: with a mac child, with two interfaces bearing
\* the same address, without a mac child, with a mac child without address
InterfaceCases ==
    { Iface("network", <<Mac("52:54:00:00:00:01"),
                         Elem("source", "network" :> "default", "", <<>>),
                         Elem("model", "type" :> "virtio", "", <<>>)>>),
      Iface("bridge", <<Elem("target", "dev" :> "vnet0", "", <<>>),
                        Mac("52:54:00:00:00:02"),
                        Elem("virtualport", "type" :> "openvswitch", "", <<>>),
                        Elem("address", ("type" :> "pci") @@ ("slot" :> "0x03"), "", <<>>)>>),
      Iface("bridge", <<Mac("52:54:00:00:00:01"),
                        Elem("source", "bridge" :> "br0", "", <<>>)>>),
      Iface("user", <<Elem("model", "type" :> "e1000", "", <<>>),
                      Elem("source", "network" :> "default", "", <<>>)>>),
      Iface("network", <<Elem("mac", NoAttrib, "", <<>>),
                         Elem("model", "type" :> "virtio", "", <<>>)>>),
      Elem("interface", NoAttrib, "", <<>>) }

GetNics ==
    /\ op = "idle"
    /\ \E ifaces \in SeqsUpTo(InterfaceCases, MaxIfaces) :
          Call("_get_nics", [ifaces |-> ifaces],
               get_nics(VmName[1], DomainDoc("uuid-1", ifaces)))

\* the graphics elements tried
GraphicsCases ==
    { Elem("graphics", ("type" :> "vnc") @@ ("port" :> "5900") @@ ("autoport" :> "yes")
                       @@ ("listen" :> "0.0.0.0"), "", <<>>),
      Elem("graphics", ("type" :> "spice") @@ ("port" :> "5901") @@ ("autoport" :> "no")
                       @@ ("passwd" :> "secret"), "", <<>>),
      Elem("graphics", ("type" :> "vnc") @@ ("port" :> "-1") @@ ("keymap" :> "en-us"),
           "", <<>>),
      Elem("graphics", "type" :> "sdl", "", <<>>) }

GetGraphics ==
    /\ op = "idle"
    /\ \E g_nodes \in SeqsUpTo(GraphicsCases, MaxGraphics) :
          Call("_get_graphics", [g_nodes |-> g_nodes],
               get_graphics(VmName[1], DomainDoc("uuid-1", g_nodes)))

NextDomain ==
    \/ DomainInfo
    \/ DomainState
    \/ GetNics
    \/ GetGraphics
    \/ Done

SpecDomain == InitAlone /\ [][NextDomain]_vars

\* a backing chain as qemu-img prints it: layer i has file spec[i][1] and, unless
\* None, backing file spec[i][2]; a rich chain also has cluster sizes and a snapshot
Snapshot == ("id" :> "1") @@ ("name" :> "snap") @@ ("vm-state-size" :> 0)
LayerOf(spec, i, rich) ==
    (IF spec[i][2] = None THEN Layer(spec[i][1], i) ELSE Backed(Layer(spec[i][1], i), spec[i][2]))
    @@ (IF rich THEN "cluster-size" :> 65536 ELSE <<>>)
    @@ (IF rich /\ i = 1 THEN "snapshots" :> <<Snapshot>> ELSE <<>>)
ChainOf(spec, rich) == Chain([i \in 1..Len(spec) |-> LayerOf(spec, i, rich)])

Backings == Files \cup {NoFile, None}
ChainSpecs == UNION {[1..n -> Files \X Backings] : n \in 0..MaxLayers}
\* a layer object without its 'format'
Truncated == Chain(<<[k \in RequiredKeys \ {"format"} |-> "a"]>>)

Printings ==
    {ChainOf(spec, rich) : spec \in ChainSpecs, rich \in BOOLEAN}
    \cup {Printed(k) : k \in {"empty", "garbage", "null", "object"}}
    \cup {Truncated}

ParseQemuImgInfo ==
    /\ op = "idle"
    /\ \E info \in Printings :
          Call("_parse_qemu_img_info", [info |-> info],
               [trace |-> <<>>, outcome |-> parse_qemu_img_info(info)])

\* what qemu-img may answer for one disk
Answers ==
    {Printed(k) : k \in {"absent", "empty", "garbage", "null", "object"}}
    \cup {Chain(<<>>), Chain(<<Backed(Layer("b", 2), "a"), Layer("a", 1)>>)}
NoAnswer == Printed("absent")

Qcow2Disk(file, dev) ==
    DiskElem("disk", <<Elem("driver", "type" :> "qcow2", "", <<>>),
                       Elem("source", "file" :> file, "", <<>>),
                       Elem("target", "dev" :> dev, "", <<>>)>>)
PlainDisks ==
    { DiskElem("disk", <<Elem("driver", "type" :> "raw", "", <<>>),
                         Elem("source", "file" :> "c", "", <<>>),
                         Elem("target", "dev" :> "vdc", "", <<>>)>>),
      DiskElem("cdrom", <<Elem("source", ("file" :> "") @@ ("dev" :> "/dev/sr0"), "", <<>>),
                          Elem("target", "dev" :> "hdc", "", <<>>)>>),
      Elem("disk", NoAttrib, "",
           <<Elem("source", ("protocol" :> "rbd") @@ ("name" :> "pool/img"), "", <<>>),
             Elem("target", "dev" :> "vdd", "", <<>>)>>),
      DiskElem("disk", <<Elem("source", "protocol" :> "rbd", "", <<>>),
                         Elem("target", "dev" :> "vde", "", <<>>)>>),
      DiskElem("disk", <<Elem("source", "file" :> "c", "", <<>>),
                         Elem("target", "bus" :> "virtio", "", <<>>)>>),
      DiskElem("disk", <<Elem("target", "dev" :> "vdf", "", <<>>)>>),
      DiskElem("disk", <<Elem("source", "file" :> "c", "", <<>>)>>) }

DiskCases ==
    {[elem |-> Qcow2Disk(f, d), answer |-> a] : f \in {"b"}, d \in {"vda", "vdc"}, a \in Answers}
    \cup {[elem |-> e, answer |-> NoAnswer] : e \in PlainDisks}

GetDisks ==
    /\ op = "idle"
    /\ \E cases \in UNION {[1..n -> DiskCases] : n \in 0..MaxDisks} :
          Call("_get_disks", [cases |-> cases],
               get_disks(VmName[1],
                         DomainDoc("uuid-1", [i \in 1..Len(cases) |-> cases[i].elem]),
                         [i \in 1..Len(cases) |-> cases[i].answer]))

NextDisk ==
    \/ ParseQemuImgInfo
    \/ GetDisks
    \/ Done

SpecDisk == InitAlone /\ [][NextDisk]_vars

(***************************************************************************)
(* Properties.                                                             *)
(***************************************************************************)
ConnOps == {"list_all", "list_active", "list_inactive", "get_xml", "info", "state",
            "node.info", "pool_capabilities"}
Positions(events, ev) == {i \in 1..Len(events) : events[i] = ev}
CallsOf(events, call) == {i \in 1..Len(events) : events[i][2] = call}
NoVirtualMachines == <<"Exception", "No virtual machines found.">>
ConnectionFailure(connection) ==
    <<"Exception", "Sorry, failed to open a connection to the hypervisor software at ",
      IF connection \in {None, ""} THEN OPT_uri ELSE connection>>

\* C1: in every public operation whose connection was acquired, whatever the
\* queries of the operation did, the connection is closed exactly once and the
\* close is the last call the operation makes before it returns or raises.
C1_ClosedOnceAtTheEnd ==
    (op \in ConnOps /\ ~args.openFails) =>
        /\ Cardinality(Positions(trace, Close)) = 1
        /\ trace[Len(trace)] = Close
        /\ \A i \in 1..(Len(trace) - 1) : trace[i] # Close

\* an operation whose qemu-img call could not be started still closed its connection
C1_Witness ==
    /\ op = "info"
    /\ ~args.openFails
    /\ outcome.kind = "raise"
    /\ outcome.exc[1] = "FileNotFoundError"
    /\ trace[Len(trace)] = Close

\* C2: when get_conn fails, every public operation raises the connection failure
\* naming the URI, after a single attempt to open and no other call.
C2_ConnectionFailureSurfaces ==
    (op \in ConnOps /\ args.openFails) =>
        /\ outcome.kind = "raise"
        /\ outcome.exc = ConnectionFailure(args.connection)
        /\ trace = <<Ev("libvirt", "openAuth", outcome.exc[3])>>

\* the domains an inclusion policy admits, the active ones first
Policy(wantActive, wantInactive) ==
    (IF wantActive THEN active ELSE <<>>) \o (IF wantInactive THEN defined ELSE <<>>)
\* the enumerations without names whose queries all succeeded
IsEnumeration ==
    \/ op = "_get_domain" /\ args.vms = <<>>
    \/ op \in {"list_all", "list_active", "list_inactive"} /\ ~args.openFails /\ args.failAt = 0
EnumPolicy ==
    CASE op = "_get_domain" -> Policy(args.active, args.inactive)
      [] op = "list_all" -> Policy(TRUE, TRUE)
      [] op = "list_active" -> Policy(TRUE, FALSE)
      [] op = "list_inactive" -> Policy(FALSE, TRUE)
Enumerated == IF op = "_get_domain" THEN outcome.value.doms ELSE outcome.value

TargetDev(elem) == Head(FindAll(elem, "target")).attrib["dev"]

\* C3: a qcow2 disk whose image inspection failed (qemu-img absent, nothing or
\* no JSON printed) is reported under its target device with the file
\* 'Does not exist', and _get_disks returns.
C3_InspectionFailureTolerated ==
    op = "_get_disks" =>
        \A i \in 1..Len(args.cases) :
            (/\ IsQcow2(args.cases[i].elem)
             /\ args.cases[i].answer.kind \in {"absent", "empty", "garbage"}) =>
                /\ outcome.kind = "return"
                /\ TargetDev(args.cases[i].elem) \in DOMAIN outcome.value
                /\ (\A k \in (i + 1)..Len(args.cases) :
                        Reported(args.cases[k].elem) =>
                           TargetDev(args.cases[k].elem) # TargetDev(args.cases[i].elem))
                      => outcome.value[TargetDev(args.cases[i].elem)]["file"] = "Does not exist"
                /\ \A k \in 1..Len(args.cases) :
                      Reported(args.cases[k].elem) =>
                         TargetDev(args.cases[k].elem) \in DOMAIN outcome.value

\* C4: an enumeration without names returns exactly the domains its inclusion
\* policy admits, and fails with the no-virtual-machines error only when the
\* host has neither an active nor an inactive domain.
C4_EnumerationByPolicy ==
    IsEnumeration =>
        IF active = <<>> /\ defined = <<>>
          THEN outcome.kind = "raise" /\ outcome.exc = NoVirtualMachines
          ELSE outcome.kind = "return" /\ Enumerated = EnumPolicy

\* C5: on a host without any domain _get_domain raises 'No virtual machines
\* found.' for all names and every iterable flag, without a lookup by name, and
\* so do list_all, info and state.
C5_NoDomainsPresent ==
    (active = <<>> /\ defined = <<>>) =>
        /\ op = "_get_domain" =>
              /\ outcome.kind = "raise"
              /\ outcome.exc = NoVirtualMachines
              /\ CallsOf(trace, "lookupByName") = {}
        /\ (op \in {"list_all", "info", "state"} /\ ~args.openFails /\ args.failAt = 0) =>
              /\ outcome.kind = "raise"
              /\ outcome.exc = NoVirtualMachines
              /\ CallsOf(trace, "lookupByName") = {}

C5_Witness ==
    /\ active = <<>> /\ defined = <<>>
    /\ op = "_get_domain"
    /\ Len(args.vms) = 2
    /\ args.iterable
    /\ outcome.exc = NoVirtualMachines

\* C6: when domains are enumerated and a requested name is not among them,
\* _get_domain raises the not-present error naming the first such name in the
\* order of the request, and looks no name up.
C6_FirstMissingNamed ==
    (op = "_get_domain"
       /\ Policy(args.active, args.inactive) # <<>>
       /\ \E i \in 1..Len(args.vms) : args.vms[i] \notin Range(Policy(args.active, args.inactive)))
    => /\ outcome.kind = "raise"
       /\ Len(outcome.exc) = 4
       /\ outcome.exc[1] = "Exception"
       /\ outcome.exc[2] = "The VM \""
       /\ outcome.exc[4] = "\" is not present"
       /\ \E i \in 1..Len(args.vms) :
             /\ outcome.exc[3] = args.vms[i]
             /\ args.vms[i] \notin Range(Policy(args.active, args.inactive))
             /\ \A j \in 1..(i - 1) : args.vms[j] \in Range(Policy(args.active, args.inactive))
       /\ CallsOf(trace, "lookupByName") = {}

\* a present name, then a missing one
C6_Witness ==
    /\ op = "_get_domain"
    /\ Len(args.vms) = 2
    /\ args.vms[1] \in Range(Policy(args.active, args.inactive))
    /\ args.vms[2] \notin Range(Policy(args.active, args.inactive))
    /\ outcome.kind = "raise"
    /\ outcome.exc[3] = args.vms[2]

KvmMatches(env) ==
    /\ env.readable
    /\ Contains(env.modules, KvmMarker)
    /\ Contains(env.ps[1], DaemonMarker)
XenMatches(env) ==
    /\ "virtual_subtype" \in DOMAIN env.grains
    /\ env.grains["virtual_subtype"] = "Xen Dom0"
    /\ env.readable
    /\ Contains(env.modules, XenMarker)
    /\ Contains(env.ps[2], DaemonMarker)

\* C7: get_hypervisor returns 'kvm' whenever the KVM check matches, even if the
\* Xen check matches too, 'xen' when only the Xen check matches, None when
\* neither does, and None whenever the process listing prints nothing.
C7_FirstMatchingStrategy ==
    op = "get_hypervisor" =>
        /\ outcome.kind = "return"
        /\ KvmMatches(args.env) => outcome.value = "kvm"
        /\ (~KvmMatches(args.env) /\ XenMatches(args.env)) => outcome.value = "xen"
        /\ (~KvmMatches(args.env) /\ ~XenMatches(args.env)) => outcome.value = None
        /\ (args.env.ps[1] = <<>> /\ args.env.ps[2] = <<>>) => outcome.value = None

\* both strategies match
C7_Witness ==
    /\ op = "get_hypervisor"
    /\ KvmMatches(args.env)
    /\ XenMatches(args.env)
    /\ outcome.value = "kvm"

\* C8: node info maps the eight positions of getInfo() to its eight fields,
\* position by position, and changes no value.
C8_NodePositions ==
    op = "_node_info" =>
        /\ outcome.kind = "return"
        /\ DOMAIN outcome.value = {"cpumodel", "phymemory", "cpus", "cpumhz", "numanodes",
                                   "sockets", "cpucores", "cputhreads"}
        /\ outcome.value.cpumodel = args.raw[1]
        /\ outcome.value.phymemory = args.raw[2]
        /\ outcome.value.cpus = args.raw[3]
        /\ outcome.value.cpumhz = args.raw[4]
        /\ outcome.value.numanodes = args.raw[5]
        /\ outcome.value.sockets = args.raw[6]
        /\ outcome.value.cpucores = args.raw[7]
        /\ outcome.value.cputhreads = args.raw[8]

C8_Witness ==
    /\ op = "_node_info"
    /\ args.raw[6] # args.raw[7]
    /\ outcome.value.sockets = args.raw[6]
    /\ outcome.value.cpucores = args.raw[7]

\* n is int(x): the integer next to x on the side of zero
IsIntOf(n, x) ==
    /\ n \in Int
    /\ x.num >= 0 => n * x.den <= x.num /\ x.num < (n + 1) * x.den
    /\ x.num < 0 => n * x.den >= x.num /\ x.num > (n - 1) * x.den

StateTable(code) ==
    CASE code = 0 -> "running"
      [] code = 1 -> "running"
      [] code = 2 -> "running"
      [] code = 3 -> "paused"
      [] code = 4 -> "shutdown"
      [] code = 5 -> "shutdown"
      [] code = 6 -> "crashed"
      [] OTHER -> "unknown"

\* C9: for raw = [state, maxMem, mem, cpu, cputime] domain info reports
\* cpu = raw[3], cputime = int(raw[4]), maxMem = int(raw[1]), mem = int(raw[2]),
\* and domain info and domain state report the state of the fixed table.
C9_InfoPositionsAndState ==
    /\ op = "info._info" =>
          /\ outcome.kind = "return"
          /\ outcome.value.cpu = args.raw[4]
          /\ IsIntOf(outcome.value.cputime, args.raw[5])
          /\ IsIntOf(outcome.value.maxMem, args.raw[2])
          /\ IsIntOf(outcome.value.mem, args.raw[3])
          /\ outcome.value.state = StateTable(args.raw[1])
    /\ op = "state._info" =>
          /\ outcome.kind = "return"
          /\ outcome.value = StateTable(args.raw[1])

\* a code outside the table and a cputime that is not whole
C9_Witness ==
    /\ op = "info._info"
    /\ args.raw[1] = 7
    /\ args.raw[5] = Num(1, 2)
    /\ args.raw[2] # args.raw[3]
    /\ outcome.value.state = "unknown"
    /\ outcome.value.cputime = 0

\* what layer i of the printed chain must read as: its own fields, and in
\* 'backing file' the reading of the first layer whose file is the backing path
RECURSIVE Resolved(_, _, _)
ResolvedBacking(layers, matches, path, fuel) ==
    IF matches = {} THEN <<"str", path>>
    ELSE IF fuel = 0 THEN <<"deeper">>
    ELSE <<"disk", Resolved(layers, Min(matches), fuel - 1)>>

Resolved(layers, i, fuel) ==
    IF "full-backing-filename" \notin DOMAIN layers[i] THEN DiskOfLayer(layers[i])
    ELSE [DiskOfLayer(layers[i]) EXCEPT !["backing file"] =
            ResolvedBacking(layers,
                            {j \in 1..Len(layers) :
                               layers[j]["filename"] = layers[i]["full-backing-filename"]},
                            layers[i]["full-backing-filename"], fuel)]

\* C10: after re-linking, every layer reads with its backing path replaced by
\* the descriptor of the first parsed layer bearing that file, itself re-linked
\* (so a chain A <- B <- C reads C -> B -> A in any parse order), a path no
\* layer bears is kept, and the first parsed layer is returned.
C10_BackingChainRelinked ==
    (op = "_parse_qemu_img_info" /\ outcome.kind = "return") =>
        /\ outcome.value.root = 1
        /\ \A i \in 1..Len(args.info.layers) :
              Expand(outcome.value.heap, i, Fuel) = Resolved(args.info.layers, i, Fuel)

\* the chain C, B, A parsed top first: C reads B, which reads A
C10_Witness ==
    /\ op = "_parse_qemu_img_info"
    /\ outcome.kind = "return"
    /\ Len(args.info.layers) = 3
    /\ "full-backing-filename" \notin DOMAIN args.info.layers[3]
    /\ "full-backing-filename" \in DOMAIN args.info.layers[2]
    /\ "full-backing-filename" \in DOMAIN args.info.layers[1]
    /\ args.info.layers[2]["full-backing-filename"] = args.info.layers[3]["filename"]
    /\ args.info.layers[1]["full-backing-filename"] = args.info.layers[2]["filename"]
    /\ args.info.layers[1]["filename"] # args.info.layers[3]["filename"]
    /\ args.info.layers[2]["filename"] # args.info.layers[3]["filename"]
    /\ args.info.layers[1]["filename"] # args.info.layers[2]["filename"]
    /\ Expand(outcome.value.heap, 1, Fuel)["backing file"][2]["backing file"][2]
         = DiskOfLayer(args.info.layers[3])

\* the hypervisor the host runs, as the two strategies of detection see it
DetectedOn(env) ==
    IF KvmMatches(env) THEN "kvm" ELSE IF XenMatches(env) THEN "xen" ELSE None

\* the minimum library version of a driver of the table, 0 when it has none
MinVersion(name) ==
    CASE name = "sheepdog"     -> 10000
      [] name = "gluster"      -> 1002000
      [] name = "zfs"          -> 1002008
      [] name = "iscsi-direct" -> 4007000
      [] OTHER                 -> 0

\* the hypervisors a driver of the table works with
Compatible(name) ==
    CASE name \in {"sheepdog", "gluster"} -> {"kvm"}
      [] name = "zfs"                     -> {"bhyve"}
      [] name = "iscsi-direct"            -> {"kvm", "xen"}
      [] OTHER                            -> {"xen", "kvm", "bhyve"}

DriverNames ==
    <<"fs", "dir", "iscsi", "scsi", "logical", "netfs", "disk", "mpath", "rbd",
      "sheepdog", "gluster", "zfs", "iscsi-direct">>

\* C11: in the synthesized fallback every driver of the table is reported
\* supported exactly when the library version reaches its minimum, if it has
\* one, and the detected hypervisor is among those it works with; a kvm-only
\* driver below its minimum is unsupported on kvm, and nothing is supported
\* when no hypervisor is detected.
C11_SupportedByVersionAndHypervisor ==
    (op = "pool_capabilities.synthesized" /\ outcome.kind = "return") =>
        /\ Len(outcome.value.pool_types) = Len(DriverNames)
        /\ \A i \in 1..Len(DriverNames) :
              /\ outcome.value.pool_types[i].name = DriverNames[i]
              /\ outcome.value.pool_types[i].supported
                   = (/\ (MinVersion(DriverNames[i]) = 0
                           \/ args.libvirt_version >= MinVersion(DriverNames[i]))
                      /\ DetectedOn(args.env) \in Compatible(DriverNames[i]))
              /\ (/\ Compatible(DriverNames[i]) = {"kvm"}
                  /\ args.libvirt_version < MinVersion(DriverNames[i]))
                    => ~outcome.value.pool_types[i].supported
              /\ DetectedOn(args.env) = None => ~outcome.value.pool_types[i].supported

\* kvm is detected with the library one version below the minimum of gluster:
\* sheepdog is supported, gluster is not
C11_Witness ==
    /\ op = "pool_capabilities.synthesized"
    /\ outcome.kind = "return"
    /\ DetectedOn(args.env) = "kvm"
    /\ args.libvirt_version = MinVersion("gluster") - 1
    /\ outcome.value.pool_types[10].supported
    /\ ~outcome.value.pool_types[11].supported
    /\ outcome.value.pool_types[1].supported

\* the addresses of the mac children of an interface element
Addresses(iface) ==
    {FindAll(iface, "mac")[i].attrib["address"] :
       i \in {j \in 1..Len(FindAll(iface, "mac")) :
                "address" \in DOMAIN FindAll(iface, "mac")[j].attrib}}

\* C12: _get_nics returns a map whose every key is the address of the mac
\* child of an interface of the domain and never anything but an address;
\* every interface with a mac child bearing an address is found under that
\* address, and an interface without a mac child adds no entry.
C12_NicsKeyedByMac ==
    op = "_get_nics" =>
        /\ outcome.kind = "return"
        /\ \A k \in DOMAIN outcome.value :
              /\ k # None
              /\ \E i \in 1..Len(args.ifaces) : k \in Addresses(args.ifaces[i])
        /\ \A i \in 1..Len(args.ifaces) :
              Addresses(args.ifaces[i]) \subseteq DOMAIN outcome.value
        /\ Cardinality(DOMAIN outcome.value)
             <= Cardinality({i \in 1..Len(args.ifaces) : FindAll(args.ifaces[i], "mac") # <<>>})

\* the attribute values of the graphics elements after the first
ValuesOf(attrib) == {attrib[k] : k \in DOMAIN attrib}
LaterValues(g_nodes) ==
    UNION {ValuesOf(g_nodes[i].attrib) : i \in 2..Len(g_nodes)}

\* C17: the graphics block is the template of five 'None' fields overlaid
\* with the attributes of the first graphics element only: the template
\* itself without a graphics element, and with several elements no value that
\* only a later element bears.
C17_FirstGraphicsOnly ==
    op = "_get_graphics" =>
        /\ outcome.kind = "return"
        /\ args.g_nodes = <<>> =>
              outcome.value = [k \in {"autoport", "keymap", "listen", "port", "type"} |-> "None"]
        /\ args.g_nodes # <<>> =>
              /\ DOMAIN outcome.value
                   = {"autoport", "keymap", "listen", "port", "type"}
                       \cup DOMAIN args.g_nodes[1].attrib
              /\ \A k \in DOMAIN outcome.value :
                    outcome.value[k] = IF k \in DOMAIN args.g_nodes[1].attrib
                                         THEN args.g_nodes[1].attrib[k] ELSE "None"
              /\ \A k \in DOMAIN outcome.value :
                    outcome.value[k] \in LaterValues(args.g_nodes)
                      => outcome.value[k] \in ValuesOf(args.g_nodes[1].attrib) \cup {"None"}

\* C13: with the module listing unreadable, each strategy that tries to read
\* it reports false: get_hypervisor returns None whatever the grains and the
\* process listing are, it does not raise, and the process listing is not run.
C13_UnreadableModulesMeanNoHypervisor ==
    (op = "get_hypervisor" /\ ~args.env.readable) =>
        /\ outcome.kind = "return"
        /\ outcome.value = None
        /\ CallsOf(trace, "cmd.run") = {}
        /\ \A i \in 1..Len(trace) : trace[i] = OpenModules

\* a Xen Dom0 with libvirtd running whose module listing cannot be read: both
\* strategies tried to read it
C13_Witness ==
    /\ op = "get_hypervisor"
    /\ ~args.env.readable
    /\ "virtual_subtype" \in DOMAIN args.env.grains
    /\ args.env.grains["virtual_subtype"] = "Xen Dom0"
    /\ Contains(args.env.ps[1], DaemonMarker)
    /\ Contains(args.env.ps[2], DaemonMarker)
    /\ Len(trace) = 2
    /\ outcome.kind = "return"

PoolNames(pool_types) == [i \in 1..Len(pool_types) |-> pool_types[i].name]

\* C14: a result of pool_capabilities has computed = false exactly when the
\* connection exposes the pool-capability query, and then the pool types are
\* those of the capability document and neither the library version nor the
\* detection of the hypervisor is consulted; it has computed = true exactly
\* when the pool types are those of the static table.
C14_ComputedFlagTellsTheMode ==
    (op = "pool_capabilities" /\ outcome.kind = "return") =>
        /\ outcome.value.computed = ~args.hasCaps
        /\ args.hasCaps =>
              /\ CallsOf(trace, "getStoragePoolCapabilities") # {}
              /\ CallsOf(trace, "getLibVersion") = {}
              /\ CallsOf(trace, "open") = {}
              /\ CallsOf(trace, "cmd.run") = {}
              /\ PoolNames(outcome.value.pool_types) = <<"dir", "zfs">>
              /\ outcome.value.pool_types[1].supported
              /\ ~outcome.value.pool_types[2].supported
        /\ ~args.hasCaps =>
              /\ CallsOf(trace, "getStoragePoolCapabilities") = {}
              /\ CallsOf(trace, "getLibVersion") # {}
              /\ PoolNames(outcome.value.pool_types) = DriverNames

\* a synthesized result on a host where kvm is detected
C14_Witness ==
    /\ op = "pool_capabilities"
    /\ outcome.kind = "return"
    /\ ~args.hasCaps
    /\ outcome.value.computed
    /\ DetectedOn(args.env) = "kvm"
    /\ outcome.value.pool_types[10].supported

\* the names _get_domain resolves: the requested ones in the order of the
\* request, or with none requested the active domains then the inactive ones,
\* as the flags admit them
ResolvedNames ==
    IF args.vms # <<>> THEN args.vms
    ELSE (IF args.active THEN active ELSE <<>>) \o (IF args.inactive THEN defined ELSE <<>>)

\* C15: _get_domain returns a bare handle exactly when one domain is resolved
\* and iterable was not passed, whether the domain was requested by name or is
\* the only one admitted; otherwise it returns a list with one handle per
\* resolved name, in the order of the request or of the enumeration.
C15_BareHandleOrList ==
    (op = "_get_domain" /\ outcome.kind = "return") =>
        /\ outcome.value.doms = ResolvedNames
        /\ outcome.value.bare = (Len(ResolvedNames) = 1 /\ ~args.iterable)
        /\ args.iterable => ~outcome.value.bare
        /\ Len(ResolvedNames) >= 2 => ~outcome.value.bare

\* iterable is passed and a single domain is resolved: a list of one handle
C15_Witness ==
    /\ op = "_get_domain"
    /\ outcome.kind = "return"
    /\ args.iterable
    /\ args.vms = <<>>
    /\ Len(outcome.value.doms) = 1
    /\ ~outcome.value.bare

\* the backing path of a disk as its source element tells it, '' when it
\* tells none
DerivedPath(source) ==
    IF "file" \in DOMAIN source.attrib /\ source.attrib["file"] # ""
      THEN source.attrib["file"]
    ELSE IF "dev" \in DOMAIN source.attrib /\ source.attrib["dev"] # ""
      THEN source.attrib["dev"]
    ELSE IF {"protocol", "name"} \subseteq DOMAIN source.attrib
      THEN IF source.attrib["protocol"] = "rbd" /\ source.attrib["name"] = "pool/img"
             THEN "rbd:pool/img" ELSE "other"
    ELSE ""

\* the disk element has a source child, a target child and a backing path
Eligible(elem) ==
    /\ FindAll(elem, "source") # <<>>
    /\ FindAll(elem, "target") # <<>>
    /\ DerivedPath(Head(FindAll(elem, "source"))) # ""

HasTargetDev(elem) == "dev" \in DOMAIN Head(FindAll(elem, "target")).attrib

\* C16: _get_disks returns an entry for each disk element with a source child,
\* a target child and a derivable backing path (file, else dev, else
\* protocol:name), keyed by the device name of the target, and for no other
\* element; the entry of a disk whose driver is not qcow2 holds exactly the
\* path as 'file' and the device attribute as 'type'.
C16_DisksByDerivedPath ==
    op = "_get_disks" =>
        /\ outcome.kind = "return"
        /\ \A i \in 1..Len(args.cases) :
              Eligible(args.cases[i].elem) =>
                 /\ HasTargetDev(args.cases[i].elem)
                 /\ TargetDev(args.cases[i].elem) \in DOMAIN outcome.value
        /\ \A k \in DOMAIN outcome.value :
              \E i \in 1..Len(args.cases) :
                 /\ Eligible(args.cases[i].elem)
                 /\ TargetDev(args.cases[i].elem) = k
        /\ \A i \in 1..Len(args.cases) :
              (/\ Eligible(args.cases[i].elem)
               /\ ~IsQcow2(args.cases[i].elem)
               /\ \A j \in (i + 1)..Len(args.cases) :
                     Eligible(args.cases[j].elem) =>
                        TargetDev(args.cases[j].elem) # TargetDev(args.cases[i].elem))
                 => outcome.value[TargetDev(args.cases[i].elem)]
                      = [file |-> DerivedPath(Head(FindAll(args.cases[i].elem, "source"))),
                         type |-> Get(args.cases[i].elem.attrib, "device", None)]
====
